---- MODULE Spec2Model ----
(***************************************************************************)
(* Cover metrics of circulo (src/circulo/metrics/cover.py): the boundary   *)
(* edge partition external_edges and the calculators built on it, applied  *)
(* to a bounded family of graphs and covers.                               *)
(*                                                                         *)
(* Conventions.  Vertices are 0..vcount-1 as in igraph.  Cluster ids       *)
(* and edge ids are the 1-based positions in the sequences clusters and    *)
(* edges (Python's index i is position i+1).  A float is the exact         *)
(* fraction <<n, d>> with d > 0; NaN is <<0, 0>>.  rv holds what the last   *)
(* call returned, or the exception it raised.  The operator / is Python 3  *)
(* true division, which raises ZeroDivisionError on a zero divisor.        *)
(***************************************************************************)
EXTENDS Integers, Sequences, FiniteSets

VARIABLES vcount, directed, edges, clusters, called, rv

vars == <<vcount, directed, edges, clusters, called, rv>>

\* The graphs and covers explored: vertices + edges + clusters <= MaxSize
MaxSize == 7

\* float('nan') and float('inf'), told from the fractions by a zero denominator
NaN == <<0, 0>>
Inf == <<1, 0>>

\* What a call leaves: the list it returns, or the exception it raises
Return(list) == [exc |-> "None", val |-> list]
ZeroDivisionError == [exc |-> "ZeroDivisionError", val |-> <<>>]
ValueError == [exc |-> "ValueError", val |-> <<>>]

-----------------------------------------------------------------------------
(* The inputs: a graph (vertex count, directed flag, edge list) and a cover  *)
(* (cluster list)                                                            *)

Vertices == 0 .. (vcount - 1)

\* The endpoints an edge can have.  igraph reports an undirected edge with
\* source <= target; a directed edge keeps its orientation.  Self-loops and
\* parallel edges are allowed.
EdgePairs == {p \in Vertices \X Vertices : directed \/ p[1] <= p[2]}

SeqsUpTo(S, n) == UNION {[1 .. k -> S] : k \in 0 .. n}

source(e) == edges[e][1]
target(e) == edges[e][2]

EdgeIds == 1 .. Len(edges)

\* len(cover), cover.size(i), cover.graph.ecount()
NumClusters == Len(clusters)
size(i) == Cardinality(clusters[i])
ecount == Len(edges)

\* cover.subgraph(i).ecount(): the edges of the subgraph induced by cluster i
int_edges_cnt(i) ==
    Cardinality({e \in EdgeIds : source(e) \in clusters[i] /\ target(e) \in clusters[i]})

\* cover.graph.degree(): every edge end at v counts, a self-loop twice
degree(v) ==
    Cardinality({e \in EdgeIds : source(e) = v}) + Cardinality({e \in EdgeIds : target(e) = v})

\* cover.membership[v]: the ids of the clusters holding v, ascending
RECURSIVE MembershipFrom(_, _)
MembershipFrom(v, i) ==
    IF i > NumClusters THEN <<>>
    ELSE (IF v \in clusters[i] THEN <<i>> ELSE <<>>) \o MembershipFrom(v, i + 1)

membership(v) == MembershipFrom(v, 1)

\* cover.crossing()[e], the graph library's predicate, as the design document
\* defines a crossing edge: the endpoints' membership lists are not identical
crossing(e) == membership(source(e)) # membership(target(e))

-----------------------------------------------------------------------------
(* external_edges *)

\* for cluster_id in node_membership: array_of_sets[cluster_id] += [edge]
RECURSIVE AppendToClusters(_, _, _, _)
AppendToClusters(arr, node_membership, k, e) ==
    IF k > Len(node_membership) THEN arr
    ELSE AppendToClusters(
            [arr EXCEPT ![node_membership[k]] = Append(@, e)],
            node_membership, k + 1, e)

\* membership = [cover.membership[edge.source]], plus the target's list
\* when the graph is undirected
\* (variant: the target's list collected in directed graphs too)
CollectedMembership_AlwaysTarget(e) ==
    <<membership(source(e)), membership(target(e))>>

\* (variant: the directedness test inverted)
CollectedMembership_Inverted(e) ==
    IF directed
    THEN <<membership(source(e)), membership(target(e))>>
    ELSE <<membership(source(e))>>

CollectedMembership(e) ==
    IF ~directed
    THEN <<membership(source(e)), membership(target(e))>>
    ELSE <<membership(source(e))>>

RECURSIVE AppendForLists(_, _, _, _)
AppendForLists(arr, lists, k, e) ==
    IF k > Len(lists) THEN arr
    ELSE AppendForLists(AppendToClusters(arr, lists[k], 1, e), lists, k + 1, e)

\* (variant: every edge taken, crossing or not)
RECURSIVE ExternalEdgesLoop_NoFilter(_, _)
ExternalEdgesLoop_NoFilter(arr, e) ==
    IF e > Len(edges) THEN arr
    ELSE ExternalEdgesLoop_NoFilter(AppendForLists(arr, CollectedMembership(e), 1, e), e + 1)

\* the loop over the crossing edges, in edge order
RECURSIVE ExternalEdgesLoop(_, _)
ExternalEdgesLoop(arr, e) ==
    IF e > Len(edges) THEN arr
    ELSE ExternalEdgesLoop(
            IF crossing(e) THEN AppendForLists(arr, CollectedMembership(e), 1, e) ELSE arr,
            e + 1)

external_edges == ExternalEdgesLoop([i \in 1 .. NumClusters |-> <<>>], 1)

ext_edges_cnt(i) == Len(external_edges[i])

-----------------------------------------------------------------------------
(* The calculators.  Each returns one value per cluster, or the exception   *)
(* that the first failing division raises for the whole call.               *)

ClusterIds == 1 .. NumClusters

\* a/b + c/d
FracAdd(x, y) == <<x[1] * y[2] + y[1] * x[2], x[2] * y[2]>>

\* rv += [1.0*len(external_edges[i])/size_i]
expansion ==
    LET ext == external_edges
    IN  IF \E i \in ClusterIds : size(i) = 0 THEN ZeroDivisionError
        ELSE Return([i \in ClusterIds |-> <<Len(ext[i]), size(i)>>])

\* rv += [1.0*len(external_edges[i])/(size_i*(size_g-size_i))]
size_i_times_rest(i) == size(i) * (vcount - size(i))

cut_ratio ==
    LET ext == external_edges
    IN  IF \E i \in ClusterIds : size_i_times_rest(i) = 0 THEN ZeroDivisionError
        ELSE Return([i \in ClusterIds |-> <<Len(ext[i]), size_i_times_rest(i)>>])

\* rv += [ext_edges_cnt/(2*int_edges_cnt+ext_edges_cnt)]
\* (variant: the internal edge count as numerator)
conductance_IntNumerator ==
    LET ext == external_edges
    IN  IF \E i \in ClusterIds : 2 * int_edges_cnt(i) + Len(ext[i]) = 0 THEN ZeroDivisionError
        ELSE Return([i \in ClusterIds |->
                <<int_edges_cnt(i), 2 * int_edges_cnt(i) + Len(ext[i])>>])

conductance ==
    LET ext == external_edges
    IN  IF \E i \in ClusterIds : 2 * int_edges_cnt(i) + Len(ext[i]) = 0 THEN ZeroDivisionError
        ELSE Return([i \in ClusterIds |->
                <<Len(ext[i]), 2 * int_edges_cnt(i) + Len(ext[i])>>])

\* rv += [1.*int_edges_cnt/ext_edges_cnt]
separability ==
    LET ext == external_edges
    IN  IF \E i \in ClusterIds : Len(ext[i]) = 0 THEN ZeroDivisionError
        ELSE Return([i \in ClusterIds |-> <<int_edges_cnt(i), Len(ext[i])>>])

\* rv = cover.conductance(); rv[i] += ext_edges_cnt/(2*(tot_edge_cnt - int_edges_cnt)+ext_edges_cnt)
normalized_cut ==
    LET cond == conductance
        ext == external_edges
    IN  IF cond = ZeroDivisionError THEN ZeroDivisionError
        ELSE IF \E i \in ClusterIds : 2 * (ecount - int_edges_cnt(i)) + Len(ext[i]) = 0
        THEN ZeroDivisionError
        ELSE Return([i \in ClusterIds |->
                FracAdd(cond.val[i],
                        <<Len(ext[i]), 2 * (ecount - int_edges_cnt(i)) + Len(ext[i])>>)])

-----------------------------------------------------------------------------
(* The out-degree-fraction calculators *)

\* node_index = edge.source if i in cover.membership[edge.source] else edge.target
\* (variant: the target preferred to the source)
node_index_TargetFirst(i, e) == IF target(e) \in clusters[i] THEN target(e) ELSE source(e)

node_index(i, e) == IF source(e) \in clusters[i] THEN source(e) ELSE target(e)

\* ext_edge_per_node = [0]*vcount; for edge in external_edges[i]: ext_edge_per_node[node_index] += 1.0
RECURSIVE ExtEdgePerNodeLoop(_, _, _, _)
ExtEdgePerNodeLoop(per_node, i, list, k) ==
    IF k > Len(list) THEN per_node
    ELSE ExtEdgePerNodeLoop(
            [per_node EXCEPT ![node_index(i, list[k])] = @ + 1], i, list, k + 1)

ext_edge_per_node_of(ext, i) ==
    ExtEdgePerNodeLoop([v \in Vertices |-> 0], i, ext[i], 1)

ext_edge_per_node(i) == ext_edge_per_node_of(external_edges, i)

\* ratios += [ pair[0]/pair[1] if pair[1] != 0 else float('nan') ], in vertex order
ratios(ext, i) ==
    LET per_node == ext_edge_per_node_of(ext, i)
    IN  [p \in 1 .. vcount |->
            IF degree(p - 1) # 0 THEN <<per_node[p - 1], degree(p - 1)>> ELSE NaN]

\* x > y on floats: False whenever an operand is NaN
FloatGreater(x, y) ==
    IF x = NaN \/ y = NaN THEN FALSE ELSE x[1] * y[2] > y[1] * x[2]

\* Python's max(list): keep the first item, replace it by a later item that
\* compares greater
RECURSIVE PyMaxLoop(_, _, _)
PyMaxLoop(best, list, k) ==
    IF k > Len(list) THEN best
    ELSE PyMaxLoop(IF FloatGreater(list[k], best) THEN list[k] ELSE best, list, k + 1)

PyMax(list) == PyMaxLoop(list[1], list, 2)

\* rv += [max(ratios)]; max of an empty list raises ValueError
maximum_out_degree_fraction ==
    IF NumClusters > 0 /\ vcount = 0 THEN ValueError
    ELSE LET ext == external_edges
         IN  Return([i \in ClusterIds |-> PyMax(ratios(ext, i))])

\* nansum(list): the sum of the entries that are not NaN
RECURSIVE NanSumLoop(_, _, _)
NanSumLoop(acc, list, k) ==
    IF k > Len(list) THEN acc
    ELSE NanSumLoop(IF list[k] = NaN THEN acc ELSE FracAdd(acc, list[k]), list, k + 1)

nansum(list) == NanSumLoop(<<0, 1>>, list, 1)

\* rv += [nansum(ratios)/cover.subgraph(i).vcount()]; nansum returns a numpy
\* float, whose division by zero gives nan (0/0) or inf and does not raise
average_out_degree_fraction ==
    LET ext == external_edges
    IN  Return([i \in ClusterIds |->
            LET s == nansum(ratios(ext, i))
            IN  IF size(i) = 0 THEN (IF s[1] = 0 THEN NaN ELSE Inf)
                ELSE <<s[1], s[2] * size(i)>>])

\* flake += [ pair[0] > pair[1]/2.0 ]; rv += [sum(flake)/cover.subgraph(i).vcount()]
\* (variant: >= in place of >)
flake_count_NonStrict(ext, i) ==
    LET per_node == ext_edge_per_node_of(ext, i)
    IN  Cardinality({v \in Vertices : 2 * per_node[v] >= degree(v)})

flake_count(ext, i) ==
    LET per_node == ext_edge_per_node_of(ext, i)
    IN  Cardinality({v \in Vertices : 2 * per_node[v] > degree(v)})

flake_out_degree_fraction ==
    LET ext == external_edges
    IN  IF \E i \in ClusterIds : size(i) = 0 THEN ZeroDivisionError
        ELSE Return([i \in ClusterIds |-> <<flake_count(ext, i), size(i)>>])

-----------------------------------------------------------------------------
(* The state machine: a caller builds a graph and a cover over it, and      *)
(* calls one of the methods attached to Cover.  No method changes the graph *)
(* or the cover.  Edges and clusters are listed in a canonical order: the   *)
(* metrics do not depend on how edges and clusters are numbered.            *)

EdgeCode(p) == p[1] * vcount + p[2]

RECURSIVE ClusterCode(_, _)
ClusterCode(S, v) ==
    IF v >= vcount THEN 0
    ELSE (IF v \in S THEN 2 ^ v ELSE 0) + ClusterCode(S, v + 1)

Init ==
    /\ vcount \in 0 .. MaxSize
    /\ directed \in BOOLEAN
    /\ edges \in {s \in SeqsUpTo(EdgePairs, MaxSize - vcount) :
                    \A k \in 1 .. (Len(s) - 1) : EdgeCode(s[k]) <= EdgeCode(s[k + 1])}
    /\ clusters \in {c \in SeqsUpTo(SUBSET Vertices, MaxSize - vcount - Len(edges)) :
                    \A k \in 1 .. (Len(c) - 1) : ClusterCode(c[k], 0) <= ClusterCode(c[k + 1], 0)}
    /\ called = "none"
    /\ rv = Return(<<>>)

Call(name, value) ==
    /\ called = "none"
    /\ called' = name
    /\ rv' = value
    /\ UNCHANGED <<vcount, directed, edges, clusters>>

CallExternalEdges == Call("external_edges", Return(external_edges))
CallExpansion == Call("expansion", expansion)
CallCutRatio == Call("cut_ratio", cut_ratio)
CallConductance == Call("conductance", conductance)
CallSeparability == Call("separability", separability)
CallNormalizedCut == Call("normalized_cut", normalized_cut)
CallMaximumODF == Call("maximum_out_degree_fraction", maximum_out_degree_fraction)
CallAverageODF == Call("average_out_degree_fraction", average_out_degree_fraction)
CallFlakeODF == Call("flake_out_degree_fraction", flake_out_degree_fraction)

Next ==
    \/ CallExternalEdges
    \/ CallExpansion
    \/ CallCutRatio
    \/ CallConductance
    \/ CallSeparability
    \/ CallNormalizedCut
    \/ CallMaximumODF
    \/ CallAverageODF
    \/ CallFlakeODF

Spec == Init /\ [][Next]_vars

-----------------------------------------------------------------------------
(* Vocabulary of the properties *)

\* The endpoints of edge e have identical cluster-membership lists
SameMembership(e) ==
    \A j \in ClusterIds : (source(e) \in clusters[j]) <=> (target(e) \in clusters[j])

\* How many times edge e occurs in a boundary-edge list
Occurrences(e, list) == Cardinality({k \in 1 .. Len(list) : list[k] = e})

IsZero(x) == x[1] = 0 /\ x[2] > 0
InUnitInterval(x) == x[2] > 0 /\ 0 <= x[1] /\ x[1] <= x[2]

SingleFullCluster == NumClusters = 1 /\ clusters[1] = Vertices
NoEmptyCluster == \A i \in ClusterIds : clusters[i] # {}

\* every value of the returned list is 0
ReturnsZeros == rv.exc = "None" /\ \A i \in ClusterIds : IsZero(rv.val[i])
ReturnsNoEdges == rv.exc = "None" /\ \A i \in ClusterIds : rv.val[i] = <<>>

-----------------------------------------------------------------------------
(* C1 *)

\* C1 as stated: in every graph, directed or undirected, edge e is in
\* external_edges(cover)[i] iff e is a crossing edge and at least one endpoint
\* of e is a member of cluster i.
C1_AnyEndpoint ==
    called = "external_edges" =>
        \A i \in ClusterIds : \A e \in EdgeIds :
            (Occurrences(e, rv.val[i]) > 0) <=>
                (~SameMembership(e)
                 /\ (source(e) \in clusters[i] \/ target(e) \in clusters[i]))

\* C1 amended: edge e is in external_edges(cover)[i] iff e is a crossing edge
\* and its source is a member of cluster i or, in an undirected graph only,
\* its target is.
C1_SourceOrUndirectedTarget ==
    called = "external_edges" =>
        \A i \in ClusterIds : \A e \in EdgeIds :
            (Occurrences(e, rv.val[i]) > 0) <=>
                (~SameMembership(e)
                 /\ (source(e) \in clusters[i] \/ (~directed /\ target(e) \in clusters[i])))

C1_Witness ==
    /\ called = "external_edges"
    /\ ~directed
    /\ \E i \in ClusterIds : \E e \in EdgeIds :
        /\ ~SameMembership(e)
        /\ source(e) \notin clusters[i]
        /\ target(e) \in clusters[i]
        /\ Occurrences(e, rv.val[i]) > 0
    /\ \E e \in EdgeIds : SameMembership(e)

-----------------------------------------------------------------------------
(* C2 *)

\* C2: for every cluster i, the number of entries of external_edges(cover)[i]
\* is at most the graph's edge count E, also when clusters overlap.
C2_AtMostE ==
    called = "external_edges" =>
        \A i \in ClusterIds : Len(rv.val[i]) <= ecount

-----------------------------------------------------------------------------
(* C3 *)

\* C3: when the denominator of separability, conductance or normalized cut
\* is zero for cluster i, the calculator returns not-a-number for that cluster
\* and values for the others, and does not raise.  Stated for the covers
\* without an empty cluster.
C3_NaNInsteadOfRaising ==
    NoEmptyCluster =>
    /\ called = "separability" =>
        /\ rv.exc = "None"
        /\ \A i \in ClusterIds : ext_edges_cnt(i) = 0 => rv.val[i] = NaN
    /\ called = "conductance" =>
        /\ rv.exc = "None"
        /\ \A i \in ClusterIds :
            (int_edges_cnt(i) = 0 /\ ext_edges_cnt(i) = 0) => rv.val[i] = NaN
    /\ called = "normalized_cut" =>
        /\ rv.exc = "None"
        /\ \A i \in ClusterIds :
            (ecount = int_edges_cnt(i) /\ ext_edges_cnt(i) = 0) => rv.val[i] = NaN

-----------------------------------------------------------------------------
(* C4 *)

-----------------------------------------------------------------------------
(* C5 *)

\* C5: for every cover, overlapping or not, and every non-empty cluster i,
\* average_out_degree_fraction(cover)[i] lies in [0,1] whenever some vertex
\* has nonzero degree.
C5_AverageInUnitInterval ==
    (called = "average_out_degree_fraction" /\ \E v \in Vertices : degree(v) # 0) =>
        /\ rv.exc = "None"
        /\ \A i \in ClusterIds : clusters[i] # {} => InUnitInterval(rv.val[i])

-----------------------------------------------------------------------------
(* C6 *)

-----------------------------------------------------------------------------
(* C7 *)

\* C7: maximum_out_degree_fraction(cover)[i] is the maximum of
\* (boundary-edge count of v in cluster i) / degree(v) over the vertices v of
\* nonzero degree, wherever the vertices of degree 0 stand in the vertex order.
\* Stated for the covers without an empty cluster.
C7_MaxOverNonzeroDegree ==
    (/\ called = "maximum_out_degree_fraction"
     /\ NoEmptyCluster
     /\ \E v \in Vertices : degree(v) # 0) =>
        /\ rv.exc = "None"
        /\ \A i \in ClusterIds :
            LET r == rv.val[i]
                per_node == ext_edge_per_node(i)
                Rated == {v \in Vertices : degree(v) # 0}
            IN  /\ r[2] > 0
                /\ \A v \in Rated : r[1] * degree(v) >= per_node[v] * r[2]
                /\ \E v \in Rated : r[1] * degree(v) = per_node[v] * r[2]

-----------------------------------------------------------------------------
(* C8 *)

\* every edge joins two vertices with identical membership lists, and every
\* cluster is a non-empty proper subset of the vertices with an internal edge
C8_Cover ==
    /\ \A e \in EdgeIds : SameMembership(e)
    /\ \A i \in ClusterIds :
        clusters[i] # {} /\ clusters[i] # Vertices /\ int_edges_cnt(i) >= 1

C8_Calls == {"external_edges", "expansion", "cut_ratio", "conductance", "normalized_cut"}

C8_Conclusion ==
    /\ called = "external_edges" => ReturnsNoEdges
    /\ called = "expansion" => ReturnsZeros
    /\ called = "cut_ratio" => ReturnsZeros
    /\ called = "conductance" => ReturnsZeros
    /\ called = "normalized_cut" => ReturnsZeros

-----------------------------------------------------------------------------
(* C9 *)

\* C9: in a directed graph a crossing edge is in cluster i's boundary list
\* iff its source is a member of cluster i, so a cluster holding only the
\* target never receives it; in an undirected graph the lists of both
\* endpoints are used.
C9_DirectedSourceOnly ==
    called = "external_edges" =>
        \A i \in ClusterIds : \A e \in EdgeIds :
            ~SameMembership(e) =>
                IF directed
                THEN Occurrences(e, rv.val[i]) = (IF source(e) \in clusters[i] THEN 1 ELSE 0)
                ELSE (Occurrences(e, rv.val[i]) > 0) <=>
                        (source(e) \in clusters[i] \/ target(e) \in clusters[i])

\* a directed crossing edge kept from the cluster that holds only its target
C9_Witness ==
    /\ called = "external_edges"
    /\ directed
    /\ \E i, j \in ClusterIds : \E e \in EdgeIds :
        /\ ~SameMembership(e)
        /\ source(e) \notin clusters[i]
        /\ target(e) \in clusters[i]
        /\ Occurrences(e, rv.val[i]) = 0
        /\ source(e) \in clusters[j]
        /\ Occurrences(e, rv.val[j]) = 1

-----------------------------------------------------------------------------
(* C10 *)

\* the boundary credit of vertex v in cluster i: each crossing edge leaving a
\* member v counts once, and once more when its target is a member too; a
\* crossing edge arriving at a member v counts when its source is no member
Credit(i, v) ==
    IF v \notin clusters[i] THEN 0
    ELSE Cardinality({e \in EdgeIds : ~SameMembership(e) /\ source(e) = v})
         + Cardinality({e \in EdgeIds :
                ~SameMembership(e) /\ source(e) = v /\ target(e) \in clusters[i]})
         + Cardinality({e \in EdgeIds :
                ~SameMembership(e) /\ target(e) = v /\ source(e) \notin clusters[i]})

OdfCalls ==
    {"maximum_out_degree_fraction", "average_out_degree_fraction", "flake_out_degree_fraction"}

\* C10: in an undirected graph a crossing edge occurs in
\* external_edges(cover)[i] once per endpoint that is a member of cluster i,
\* and the out-degree-fraction calculators credit every occurrence to a member
\* of cluster i, the source if it is a member and the target otherwise, so
\* both occurrences of a doubly listed edge go to its source.
C10_OccurrencesAndCredit ==
    ~directed =>
        /\ called = "external_edges" =>
            \A i \in ClusterIds : \A e \in EdgeIds :
                ~SameMembership(e) =>
                    Occurrences(e, rv.val[i]) =
                        (IF source(e) \in clusters[i] THEN 1 ELSE 0)
                        + (IF target(e) \in clusters[i] THEN 1 ELSE 0)
        /\ called \in OdfCalls =>
            \A i \in ClusterIds :
                LET per_node == ext_edge_per_node(i)
                IN  \A v \in Vertices : per_node[v] = Credit(i, v)

\* a doubly listed edge whose two occurrences are credited to its source,
\* which makes the maximum out-degree fraction of the cluster exceed 1
C10_Witness ==
    /\ ~directed
    /\ called = "maximum_out_degree_fraction"
    /\ rv.exc = "None"
    /\ \E i \in ClusterIds : \E e \in EdgeIds :
        /\ ~SameMembership(e)
        /\ source(e) \in clusters[i]
        /\ target(e) \in clusters[i]
        /\ ext_edge_per_node(i)[source(e)] = 2
        /\ ext_edge_per_node(i)[target(e)] = 0
        /\ rv.val[i] = <<2, 1>>

====
